---------------------------- MODULE Spec2Model ----------------------------
(***************************************************************************)
(* A model of sadco-io/sad-go-telemetry: the Telemetry facade, its two     *)
(* constructors (NewTelemetry of Interface.go and of the older interface   *)
(* file), the streaming backends (OpenTelemetry of open_telemetry.go, the  *)
(* older OpenTelemetry of opentelemetry.go, the package-level functions),  *)
(* and the flat backends (AppInsightsTelemetry, TelemetryAppInsights).     *)
(***************************************************************************)
EXTENDS Integers, Sequences, FiniteSets, Bags, TLC

VARIABLES
    env,          \* the process environment read by the constructors
    pc,           \* "init" | "ready" | "failed" | "waiting" | "done" | "panic"
    obj,          \* the facade instance the constructor returned, or NoObj
    err,          \* the error the last constructor / Shutdown returned
    pkg,          \* package-level variables traceEnabled, metricsEnabled
    registry,     \* otel.SetTracerProvider / otel.SetMeterProvider
    shutdowns,    \* provider -> number of Shutdown calls it has received
    spans,        \* handle table: every span handed out by StartSpan
    instruments,  \* instruments created on the meter: {[name, kind]}
    records,      \* number of values recorded on instruments
    values,       \* instrument -> the sum (counter) or last value (gauge) it holds
    now,          \* the clock time.Now() reads, in ticks
    mock,         \* a MockTelemetry: its mutex, its call lists, its callers
    pending,      \* items of detached goroutines that have not reached Track
    tracked,      \* items handed to client.Track (a bag)
    logs,         \* calls into logger.Log per level
    tags,         \* client.Context(): the user and session ids of the client
    last,         \* the facade call made last, with what it returned
    ncalls,       \* number of facade calls made
    wait          \* the select of a flat-backend shutdown in progress

vars == <<env, pc, obj, err, pkg, registry, shutdowns, spans, instruments,
          records, values, now, mock, pending, tracked, logs, tags, last, ncalls,
          wait>>

-----------------------------------------------------------------------------
(* Bounds *)

MaxCalls == 3
MaxElapsed == 11
MaxNow == 2
MaxMockCalls == 3

-----------------------------------------------------------------------------
(* Strings the code transforms are sequences of one-character strings, so  *)
(* that strings.ToLower is computed character by character.                *)

Upper == <<"A","B","C","D","E","F","G","H","I","J","K","L","M",
           "N","O","P","Q","R","S","T","U","V","W","X","Y","Z">>
Lower == <<"a","b","c","d","e","f","g","h","i","j","k","l","m",
           "n","o","p","q","r","s","t","u","v","w","x","y","z">>

ToLowerChar(c) ==
    IF \E i \in 1..Len(Upper) : Upper[i] = c
    THEN Lower[CHOOSE i \in 1..Len(Upper) : Upper[i] = c]
    ELSE c

ToLower(s) == [i \in 1..Len(s) |-> ToLowerChar(s[i])]

s_empty == <<>>
s_otel == <<"o","t","e","l">>
s_opentelemetry == <<"o","p","e","n","t","e","l","e","m","e","t","r","y">>
s_appinsights == <<"a","p","p","i","n","s","i","g","h","t","s">>
s_applicationinsights ==
    <<"a","p","p","l","i","c","a","t","i","o","n","i","n","s","i","g","h","t","s">>

TelemetryTypeOpenTelemetry == s_opentelemetry
TelemetryTypeAppInsights == s_appinsights

\* Values of TELEMETRY_TYPE the environment may hold.
TelemetryTypeValues ==
    { s_empty, s_otel, s_opentelemetry, s_appinsights, s_applicationinsights,
      <<"O","T","E","L">>, <<"O","t","e","l">>,
      <<"O","p","e","n","T","e","l","e","m","e","t","r","y">>,
      <<"A","p","p","I","n","s","i","g","h","t","s">>,
      <<"A","P","P","I","N","S","I","G","H","T","S">>,
      <<"A","p","p","l","i","c","a","t","i","o","n","I","n","s","i","g","h","t","s">>,
      <<"j","a","e","g","e","r">>, <<"o","t","l","p">>, <<"a","i">> }

FlagValues == {"", "true", "1"}
ServiceNameValues == {"", "svc"}

\* strconv.ParseBool: the accepted spellings of true; anything else is false
\* (the error is discarded at the call sites).
ParseBool(s) == s \in {"1", "t", "T", "TRUE", "true", "True"}

EnvValues ==
    [ TELEMETRY_TYPE : TelemetryTypeValues,
      SERVICE_NAME : ServiceNameValues,
      OTEL_TRACE_ENABLED : FlagValues,
      OTEL_METRICS_ENABLED : FlagValues,
      APPINSIGHTS_TRACE_ENABLED : FlagValues,
      APPINSIGHTS_ENABLED : FlagValues ]

NoEnv ==
    [ TELEMETRY_TYPE |-> s_empty, SERVICE_NAME |-> "",
      OTEL_TRACE_ENABLED |-> "", OTEL_METRICS_ENABLED |-> "",
      APPINSIGHTS_TRACE_ENABLED |-> "", APPINSIGHTS_ENABLED |-> "" ]

-----------------------------------------------------------------------------
(* Values *)

Nil == "nil"
NoObj == [impl |-> "none"]
NoErr == "nil"
NoWait == [on |-> FALSE, elapsed |-> 0, deadline |-> 0, timer |-> FALSE]

\* A facade call as the caller sees it: the operation, the context and the
\* handle passed, what was returned, and what the call did (transport
\* submissions, instruments created, calls into the logger, a panic).
Call(op, c, h) ==
    [op |-> op, ctx |-> c, span |-> h, arg |-> Nil, retCtx |-> 0, retSpan |-> 0,
     sub |-> 0, made |-> 0,
     logged |-> [Info |-> 0, Warn |-> 0, Error |-> 0], panic |-> FALSE]
NoCall == Call("none", 0, 0)

\* A metric call, with the name, the value and the attributes it was passed.
MetricCall(op, c, name, value, attrs) ==
    [Call(op, c, 0) EXCEPT
        !.arg = [name |-> name, value |-> value, attrs |-> attrs]]

\* The implementations of the facade found in the repository.
OT == "OpenTelemetry"                 \* open_telemetry.go
OTOld == "OpenTelemetryOld"           \* opentelemetry.go
PKG == "package"                      \* package-level functions
AI == "AppInsightsTelemetry"          \* flat backend behind the interface
TAI == "TelemetryAppInsights"         \* flat backend of open_telemetry.go

Streaming == {OT, OTOld, PKG}
Flat == {AI, TAI}

NoRegistry == [tp |-> Nil, mp |-> Nil]
NoShutdowns == [p \in {"tp", "mp", "pkgtp", "pkgmp"} |-> 0]
NoLogs == [Info |-> 0, Warn |-> 0, Error |-> 0]
NoTags == [user |-> "", session |-> ""]
NoValues == [i \in {} |-> 0]

\* The methods of MockTelemetry, one call list each.
MockMethods ==
    {"StartSpan", "EndSpan", "AddEvent", "RecordMetric", "IncrementCounter",
     "RecordGauge", "LogInfo", "LogWarning", "LogError", "TrackRequest",
     "TrackDependency", "TrackAvailability", "SetUser", "SetSession",
     "Shutdown", "PostEvent", "PostTrace"}

\* The goroutines that call one MockTelemetry.
Goroutines == {1, 2}

\* A goroutine between calls.
Idle == [at |-> "idle", method |-> "", read |-> <<>>, calls |-> <<>>]

\* &MockTelemetry{}: the mutex free, every call list empty.
NoMock ==
    [mu |-> 0,
     lists |-> [m \in MockMethods |-> <<>>],
     callers |-> [g \in Goroutines |-> Idle]]

-----------------------------------------------------------------------------
(* Package initialisation and constructors.  Each is a function of its     *)
(* inputs and of the global provider registry; it yields the instance, the *)
(* error and the registry it leaves behind.                                *)

\* initProvider: an exporter that cannot be built ends the initialisation;
\* a provider is registered only behind its flag.
initProvider(te, me, tOk, mOk) ==
    IF te /\ ~tOk
    THEN [err |-> "exporter", registry |-> NoRegistry, built |-> {"trace"}]
    ELSE LET tp == IF te THEN "pkgtp" ELSE Nil
             tried == IF te THEN {"trace"} ELSE {} IN
         IF me /\ ~mOk
         THEN [err |-> "exporter", registry |-> [tp |-> tp, mp |-> Nil],
               built |-> tried \cup {"metric"}]
         ELSE [err |-> NoErr,
               registry |-> [tp |-> tp, mp |-> IF me THEN "pkgmp" ELSE Nil],
               built |-> tried \cup IF me THEN {"metric"} ELSE {}]

\* What a constructor was passed and what it did with it: the flags, whether
\* each exporter can be built, the exporters it tried to build and its error.
ConstructorCall(te, me, tOk, mOk, built, e) ==
    [called |-> TRUE, te |-> te, me |-> me, tOk |-> tOk, mOk |-> mOk,
     built |-> built, err |-> e]

\* A construction that reaches no streaming constructor.
NoConstructorCall ==
    [called |-> FALSE, te |-> FALSE, me |-> FALSE, tOk |-> FALSE, mOk |-> FALSE,
     built |-> {}, err |-> "nil"]

\* init(): the package-level flags come from the environment as it is when
\* the package is loaded.
PackageVars(te, me, reg) ==
    [traceEnabled |-> te, metricsEnabled |-> me,
     tracer |-> reg.tp, meter |-> reg.mp]

ServiceNameOr(name, default) == IF name = "" THEN default ELSE name

\* A constructor that goes on without the metric exporter when that
\* exporter cannot be built.
NewOpenTelemetry_MetricErrIgnored(serviceName, te, me, tOk, mOk, reg) ==
    IF te /\ ~tOk
    THEN [obj |-> NoObj, err |-> "exporter", registry |-> reg,
          args |-> ConstructorCall(te, me, tOk, mOk, {"trace"}, "exporter")]
    ELSE LET reg1 == IF te THEN [reg EXCEPT !.tp = "tp"] ELSE reg
             tried == (IF te THEN {"trace"} ELSE {})
                         \cup (IF me THEN {"metric"} ELSE {}) IN
         [obj |-> [impl |-> OT,
                   serviceName |-> serviceName,
                   tracer |-> reg1.tp,
                   meter |-> reg1.mp,
                   traceProvider |-> IF te THEN "tp" ELSE Nil,
                   meterProvider |-> Nil,
                   traceEnabled |-> te,
                   metricsEnabled |-> me],
          err |-> NoErr,
          registry |-> reg1,
          args |-> ConstructorCall(te, me, tOk, mOk, tried, NoErr)]

NewOpenTelemetry(serviceName, te, me, tOk, mOk, reg) ==
    IF te /\ ~tOk
    THEN [obj |-> NoObj, err |-> "exporter", registry |-> reg,
          args |-> ConstructorCall(te, me, tOk, mOk, {"trace"}, "exporter")]
    ELSE LET reg1 == IF te THEN [reg EXCEPT !.tp = "tp"] ELSE reg
             tried == IF te THEN {"trace"} ELSE {} IN
         IF me /\ ~mOk
         THEN [obj |-> NoObj, err |-> "exporter", registry |-> reg1,
               args |-> ConstructorCall(te, me, tOk, mOk,
                                        tried \cup {"metric"}, "exporter")]
         ELSE LET reg2 == IF me THEN [reg1 EXCEPT !.mp = "mp"] ELSE reg1 IN
              [obj |-> [impl |-> OT,
                        serviceName |-> serviceName,
                        tracer |-> reg2.tp,
                        meter |-> reg2.mp,
                        traceProvider |-> IF te THEN "tp" ELSE Nil,
                        meterProvider |-> IF me THEN "mp" ELSE Nil,
                        traceEnabled |-> te,
                        metricsEnabled |-> me],
               err |-> NoErr,
               registry |-> reg2,
               args |-> ConstructorCall(te, me, tOk, mOk,
                            tried \cup IF me THEN {"metric"} ELSE {}, NoErr)]

\* The older constructor declares tp and mp anew inside each branch
\* (tp := ..., mp := ...), so the outer tp and mp it stores stay nil.
newOpenTelemetry(serviceName, te, me, tOk, mOk, reg) ==
    IF te /\ ~tOk
    THEN [obj |-> NoObj, err |-> "exporter", registry |-> reg,
          args |-> ConstructorCall(te, me, tOk, mOk, {"trace"}, "exporter")]
    ELSE LET reg1 == IF te THEN [reg EXCEPT !.tp = "tp"] ELSE reg
             tried == IF te THEN {"trace"} ELSE {} IN
         IF me /\ ~mOk
         THEN [obj |-> NoObj, err |-> "exporter", registry |-> reg1,
               args |-> ConstructorCall(te, me, tOk, mOk,
                                        tried \cup {"metric"}, "exporter")]
         ELSE LET reg2 == IF me THEN [reg1 EXCEPT !.mp = "mp"] ELSE reg1 IN
              [obj |-> [impl |-> OTOld,
                        serviceName |-> serviceName,
                        traceEnabled |-> te,
                        metricsEnabled |-> me,
                        tracer |-> reg2.tp,
                        meter |-> reg2.mp,
                        traceProvider |-> Nil,
                        meterProvider |-> Nil],
               err |-> NoErr,
               registry |-> reg2,
               args |-> ConstructorCall(te, me, tOk, mOk,
                            tried \cup IF me THEN {"metric"} ELSE {}, NoErr)]

newAppInsightsTelemetry(e, reg) ==
    [obj |-> [impl |-> AI,
              client |-> "client",
              serviceName |-> ServiceNameOr(e.SERVICE_NAME, "Melina"),
              traceEnabled |-> ParseBool(e.APPINSIGHTS_TRACE_ENABLED),
              telemetryEnabled |-> ParseBool(e.APPINSIGHTS_ENABLED)],
     err |-> NoErr,
     registry |-> reg]

NewTelemetryAppInsights(serviceName, te, tel) ==
    [impl |-> TAI,
     client |-> "client",
     serviceName |-> serviceName,
     traceEnabled |-> te,
     telemetryEnabled |-> tel]

GetTelemetryAppInsights ==
    [impl |-> TAI,
     client |-> Nil,
     serviceName |-> "",
     traceEnabled |-> FALSE,
     telemetryEnabled |-> FALSE]

\* getTelemetryType: the selector, lower-cased, picks the backend; empty and
\* unknown values pick OpenTelemetry.
getTelemetryType(e) ==
    IF e.TELEMETRY_TYPE = s_empty THEN TelemetryTypeOpenTelemetry
    ELSE LET t == ToLower(e.TELEMETRY_TYPE) IN
         IF t \in {s_opentelemetry, s_otel} THEN TelemetryTypeOpenTelemetry
         ELSE IF t \in {s_appinsights, s_applicationinsights}
              THEN TelemetryTypeAppInsights
              ELSE TelemetryTypeOpenTelemetry

\* NewTelemetry of Interface.go: switches on the raw TELEMETRY_TYPE.
NewTelemetryInterface(e, tOk, mOk, reg) ==
    IF e.TELEMETRY_TYPE \in {s_opentelemetry, s_otel, s_empty}
    THEN NewOpenTelemetry(ServiceNameOr(e.SERVICE_NAME, "unknown-service"),
                          e.OTEL_TRACE_ENABLED = "true",
                          e.OTEL_METRICS_ENABLED = "true", tOk, mOk, reg)
    ELSE [obj |-> NoObj, err |-> "unknown telemetry type", registry |-> reg]

\* NewTelemetry of the older interface file: switches on getTelemetryType().
NewTelemetry(e, tOk, mOk, reg) ==
    LET telemetryType == getTelemetryType(e) IN
    IF telemetryType = TelemetryTypeOpenTelemetry
    THEN newOpenTelemetry(ServiceNameOr(e.SERVICE_NAME, "unknown-service"),
                          e.OTEL_TRACE_ENABLED = "true",
                          e.OTEL_METRICS_ENABLED = "true", tOk, mOk, reg)
    ELSE IF telemetryType = TelemetryTypeAppInsights
         THEN newAppInsightsTelemetry(e, reg)
         ELSE [obj |-> NoObj, err |-> "unknown telemetry type", registry |-> reg]

-----------------------------------------------------------------------------
(* SpecConfig: the environment is drawn, the package is initialised from   *)
(* it, and one of the two NewTelemetry functions is called once.           *)

quiet == /\ shutdowns = NoShutdowns /\ spans = <<>> /\ instruments = {}
         /\ records = 0 /\ values = NoValues /\ now = 0 /\ mock = NoMock
         /\ pending = EmptyBag /\ tracked = EmptyBag /\ logs = NoLogs
         /\ tags = NoTags
         /\ ncalls = 0 /\ wait = NoWait

opVars == <<shutdowns, spans, instruments, records, values, now, mock,
            pending, tracked, logs, tags, ncalls, wait>>

InitConfig ==
    /\ env \in EnvValues
    /\ pc = "init"
    /\ obj = NoObj
    /\ err = NoErr
    /\ \E tOk, mOk \in BOOLEAN :
          LET te == env.OTEL_TRACE_ENABLED = "true"
              me == env.OTEL_METRICS_ENABLED = "true"
              r == initProvider(te, me, tOk, mOk)
          IN /\ registry = r.registry
             /\ pkg = PackageVars(te, me, registry)
             /\ last = [Call("initProvider", 0, 0) EXCEPT
                           !.arg = ConstructorCall(te, me, tOk, mOk, r.built, r.err)]
    /\ quiet

Constructed(op, r) ==
    /\ obj' = r.obj
    /\ err' = r.err
    /\ registry' = r.registry
    /\ pc' = IF r.err = NoErr THEN "ready" ELSE "failed"
    /\ last' = [Call(op, 0, 0) EXCEPT
                   !.arg = IF "args" \in DOMAIN r THEN r.args
                           ELSE NoConstructorCall]

CallNewTelemetryInterface ==
    /\ pc = "init"
    /\ \E tOk, mOk \in BOOLEAN :
          Constructed("NewTelemetryInterface",
                      NewTelemetryInterface(env, tOk, mOk, registry))
    /\ UNCHANGED <<env, pkg, opVars>>

CallNewTelemetry ==
    /\ pc = "init"
    /\ \E tOk, mOk \in BOOLEAN :
          Constructed("NewTelemetry", NewTelemetry(env, tOk, mOk, registry))
    /\ UNCHANGED <<env, pkg, opVars>>

NextConfig == CallNewTelemetryInterface \/ CallNewTelemetry

SpecConfig == InitConfig /\ [][NextConfig]_vars

-----------------------------------------------------------------------------
(* The state a facade method works on, as a record, so that methods that   *)
(* call one another compose.  retCtx and retSpan are what StartSpan        *)
(* returns; panic is set when the method panics.                           *)

St ==
    [spans |-> spans, instruments |-> instruments, records |-> records,
     values |-> values, now |-> now,
     pending |-> pending, tracked |-> tracked, logs |-> logs, tags |-> tags,
     retCtx |-> 0, retSpan |-> 0, panic |-> FALSE]

Levels == {"Info", "Warn", "Error"}

\* Inputs of the calls.
SpanNames == {"op"}
MetricNames == {"m"}
Values == {1, 2}
AttrLists == {<<>>, <<"k">>}
Errors == {Nil, "boom"}
StatusCodes == {200, 399, 400, 404, 500}
Ids == {"u1"}

\* Handles and contexts the caller holds: nil / Background, and those
\* StartSpan returned.  A context is named by the span it carries.
HeldHandles == {0} \cup {h \in 1..Len(spans) : spans[h].held}

-----------------------------------------------------------------------------
(* The collaborators: OpenTelemetry SDK spans and instruments, the logger, *)
(* the Application Insights client.                                        *)

NewSpan(kind, name, parent, held) ==
    [kind |-> kind, name |-> name, parent |-> parent, ended |-> FALSE,
     status |-> "Unset", events |-> 0, attrs |-> {}, held |-> held,
     closes |-> 0, startTime |-> 0]

\* tracer.Start: a child of the span in ctx; a tracer obtained while no SDK
\* provider is registered hands out non-recording spans.
TracerStart(s, tracer, c, name, held) ==
    LET h == Len(s.spans) + 1 IN
    [s EXCEPT !.spans = Append(@, NewSpan(IF tracer = Nil THEN "noop" ELSE "sdk",
                                          name, c, held)),
              !.retCtx = h, !.retSpan = h]

\* trace.SpanFromContext(ctx).IsRecording()
IsRecording(s, h) ==
    /\ h # 0
    /\ s.spans[h].kind = "sdk"
    /\ ~s.spans[h].ended

\* span.End(): the first End of a recording span hands it to the exporter;
\* every later End is ignored.
SpanEnd(s, h) ==
    IF IsRecording(s, h)
    THEN [s EXCEPT !.spans[h].ended = TRUE, !.spans[h].closes = @ + 1]
    ELSE s

SpanAddEvent(s, h) ==
    IF IsRecording(s, h) THEN [s EXCEPT !.spans[h].events = @ + 1] ELSE s

SpanSetAttributes(s, h, keys) ==
    IF IsRecording(s, h) THEN [s EXCEPT !.spans[h].attrs = @ \cup keys] ELSE s

SpanSetStatus(s, h, code) ==
    IF IsRecording(s, h) /\ s.spans[h].status # "Ok"
    THEN [s EXCEPT !.spans[h].status = code]
    ELSE s

\* What an instrument holds: nothing was recorded on it yet, or the sum of
\* a counter, or the last value of a gauge.
Held(vals, name, kind) ==
    LET i == [name |-> name, kind |-> kind] IN
    IF i \in DOMAIN vals THEN vals[i] ELSE 0

\* meter.Float64Counter(name) / Float64Gauge(name) followed by Add / Record:
\* the meter keeps one instrument per name and kind; Add adds to the sum of
\* a counter, Record replaces the value of a gauge; on a meter obtained
\* while no SDK provider is registered the instrument is a placeholder and
\* the value goes nowhere.
MeterRecord(s, meter, name, kind, value) ==
    LET i == [name |-> name, kind |-> kind]
        new == IF kind = "counter" THEN Held(s.values, name, kind) + value
               ELSE value
    IN [s EXCEPT !.instruments = @ \cup {i},
                 !.records = IF meter = Nil THEN @ ELSE @ + 1,
                 !.values = IF meter = Nil THEN @
                            ELSE [x \in DOMAIN s.values \cup {i} |->
                                     IF x = i THEN new ELSE s.values[x]]]

\* meter.Float64ObservableGauge(name) followed by Observe outside of any
\* callback: the observable gauge is created; an observable instrument
\* reports what its callback observes, and whether an Observe made outside
\* a callback is kept depends on the SDK linked (observed).
MeterObserve(s, meter, name, value, observed) ==
    IF observed THEN MeterRecord(s, meter, name, "observablegauge", value)
    ELSE [s EXCEPT !.instruments =
                      @ \cup {[name |-> name, kind |-> "observablegauge"]}]

\* Creating an instrument can fail on an SDK meter only.
MeterFails(meter, ok) == meter # Nil /\ ~ok

LoggerLog(s, level) == [s EXCEPT !.logs[level] = @ + 1]

\* A telemetry item of the flat client: its kind, its name (the message of
\* a trace), the value of a metric, the severity of a trace, its properties.
Item(kind, name, value, sev, props) ==
    [kind |-> kind, name |-> name, value |-> value, sev |-> sev, props |-> props]

Range(f) == {f[i] : i \in DOMAIN f}

NoProperties == [k \in {} |-> ""]

\* properties[string(attr.Key)] = attr.Value.Emit(), for every attribute.
Properties(attrs) == [k \in Range(attrs) |-> "v"]

\* time.Duration.Milliseconds(): whole milliseconds, the rest is cut off.
TicksPerMs == 2
Milliseconds(d) == d \div TicksPerMs

\* strconv.FormatInt(n, 10) of a number that is not negative.
Digits == <<"0", "1", "2", "3", "4", "5", "6", "7", "8", "9">>
RECURSIVE FormatInt(_)
FormatInt(n) ==
    IF n < 10 THEN Digits[n + 1]
    ELSE FormatInt(n \div 10) \o Digits[(n % 10) + 1]

\* A dispatch that starts two goroutines for one item.
GoTrack_Twice(s, item) ==
    [s EXCEPT !.pending = @ (+) SetToBag({item}) (+) SetToBag({item})]

\* go func() { ...; client.Track(item) }(): the item waits for its goroutine.
GoTrack(s, item) == [s EXCEPT !.pending = @ (+) SetToBag({item})]

\* client.Track(item) on the calling goroutine.
ClientTrack(s, item) == [s EXCEPT !.tracked = @ (+) SetToBag({item})]

\* Transport submissions so far: items dispatched to or tracked by the flat
\* client, spans handed to the exporter, values recorded on instruments.
SubmittedOf(sp, rec, pen, trk) ==
    BagCardinality(pen) + BagCardinality(trk) + rec
    + Cardinality({h \in DOMAIN sp : sp[h].kind = "sdk" /\ sp[h].ended})

Submitted == SubmittedOf(spans, records, pending, tracked)

-----------------------------------------------------------------------------
(* OpenTelemetry (open_telemetry.go): every gate reads the instance.       *)

OT_StartSpan(s, o, c, name) ==
    IF ~o.traceEnabled
    THEN [s EXCEPT !.retCtx = c, !.retSpan = 0]
    ELSE TracerStart(s, o.tracer, c, name, TRUE)

OT_EndSpan(s, o, h) == IF h # 0 THEN SpanEnd(s, h) ELSE s

OT_AddEvent(s, o, h, name, attrs) == IF h # 0 THEN SpanAddEvent(s, h) ELSE s

\* The span read is that of context.Background(), which never records.
OT_PostEvent(s, o, name, props) ==
    IF ~o.traceEnabled THEN s
    ELSE IF IsRecording(s, 0) THEN SpanAddEvent(s, 0) ELSE s

OT_RecordMetric(s, o, c, name, value, attrs, ok) ==
    IF ~o.metricsEnabled THEN s
    ELSE IF MeterFails(o.meter, ok) THEN LoggerLog(s, "Error")
    ELSE MeterRecord(s, o.meter, name, "counter", value)

OT_RecordError(s, o, c, e, attrs) ==
    IF ~o.traceEnabled \/ e = Nil THEN s
    ELSE IF IsRecording(s, c)
         THEN SpanSetStatus(SpanAddEvent(s, c), c, "Error")
         ELSE s

OT_IncrementCounter(s, o, c, name, increment, attrs, ok) ==
    OT_RecordMetric(s, o, c, name, increment, attrs, ok)

OT_RecordGauge(s, o, c, name, value, attrs, ok) ==
    IF ~o.metricsEnabled THEN s
    ELSE IF MeterFails(o.meter, ok) THEN LoggerLog(s, "Error")
    ELSE MeterRecord(s, o.meter, name, "gauge", value)

OT_LogInfo(s, o, c, message, attrs) == LoggerLog(s, "Info")

OT_LogWarning(s, o, c, message, attrs) == LoggerLog(s, "Warn")

OT_LogError(s, o, c, message, e, attrs) ==
    OT_RecordError(LoggerLog(s, "Error"), o, c, e, attrs)

\* A status mapping that takes only server errors for failures.
httpStatusToSpanStatus_ServerOnly(statusCode) ==
    IF statusCode >= 500 THEN "Error" ELSE "Ok"

httpStatusToSpanStatus(statusCode) == IF statusCode >= 400 THEN "Error" ELSE "Ok"

\* TrackRequest without its deferred EndSpan: the span is never handed to
\* the exporter.
OT_TrackRequest_NoEnd(s, o, c, statusCode) ==
    IF ~o.traceEnabled THEN s
    ELSE LET s1 == TracerStart(s, o.tracer, c, "HTTP Request", FALSE)
             h == s1.retSpan
             s2 == SpanSetAttributes(s1, h,
                       {"http.method", "http.url", "http.status_code"})
             s3 == SpanSetStatus(s2, h, httpStatusToSpanStatus(statusCode))
             s4 == SpanSetAttributes(s3, h, {"http.duration_ms"})
         IN [s4 EXCEPT !.retCtx = 0, !.retSpan = 0]

\* The span is started, tagged, and ended by the deferred EndSpan; the
\* caller never sees its handle.
OT_TrackRequest(s, o, c, statusCode) ==
    IF ~o.traceEnabled THEN s
    ELSE LET s1 == TracerStart(s, o.tracer, c, "HTTP Request", FALSE)
             h == s1.retSpan
             s2 == SpanSetAttributes(s1, h,
                       {"http.method", "http.url", "http.status_code"})
             s3 == SpanSetStatus(s2, h, httpStatusToSpanStatus(statusCode))
             s4 == SpanSetAttributes(s3, h, {"http.duration_ms"})
             s5 == OT_EndSpan(s4, o, h)
         IN [s5 EXCEPT !.retCtx = 0, !.retSpan = 0]

OT_TrackDependency(s, o, c, success) ==
    IF ~o.traceEnabled THEN s
    ELSE LET s1 == TracerStart(s, o.tracer, c, "Dependency Call", FALSE)
             h == s1.retSpan
             s2 == SpanSetAttributes(s1, h,
                       {"dependency.type", "dependency.target",
                        "dependency.duration_ms", "dependency.success"})
             s3 == IF ~success THEN SpanSetStatus(s2, h, "Error") ELSE s2
             s4 == OT_EndSpan(s3, o, h)
         IN [s4 EXCEPT !.retCtx = 0, !.retSpan = 0]

OT_TrackAvailability(s, o, c, name, success, ok) ==
    IF ~o.metricsEnabled THEN s
    ELSE OT_RecordMetric(s, o, c, "availability.tests", 1,
                         <<"availability.test", "availability.duration_ms",
                           "availability.success">>, ok)

OT_SetUser(s, o, c, id) ==
    IF ~o.traceEnabled THEN s
    ELSE IF IsRecording(s, c) THEN SpanSetAttributes(s, c, {"user.id"}) ELSE s

OT_SetSession(s, o, c, id) ==
    IF ~o.traceEnabled THEN s
    ELSE IF IsRecording(s, c) THEN SpanSetAttributes(s, c, {"session.id"}) ELSE s

OT_PostTrace(s, o, message, severity, props) ==
    IF ~o.traceEnabled THEN s
    ELSE LoggerLog(IF IsRecording(s, 0) THEN SpanAddEvent(s, 0) ELSE s, "Info")

-----------------------------------------------------------------------------
(* OpenTelemetry (opentelemetry.go): StartSpan and RecordMetric read the   *)
(* package-level traceEnabled and metricsEnabled, not the instance.        *)

Old_StartSpan(s, o, g, c, name) ==
    IF ~g.traceEnabled
    THEN [LoggerLog(s, "Info") EXCEPT !.retCtx = c, !.retSpan = 0]
    ELSE TracerStart(s, o.tracer, c, name, TRUE)

Old_EndSpan(s, o, h) == IF h # 0 THEN SpanEnd(s, h) ELSE s

Old_AddEvent(s, o, h, name, attrs) == IF h # 0 THEN SpanAddEvent(s, h) ELSE s

Old_PostEvent(s, o, name, props) == s

Old_RecordMetric(s, o, g, c, name, value, attrs, ok) ==
    IF ~g.metricsEnabled THEN LoggerLog(s, "Info")
    ELSE IF MeterFails(o.meter, ok) THEN LoggerLog(s, "Error")
    ELSE MeterRecord(s, o.meter, name, "counter", value)

Old_IncrementCounter(s, o, g, c, name, increment, attrs, ok) ==
    Old_RecordMetric(s, o, g, c, name, increment, attrs, ok)

\* No gate at all: the observable gauge is created whatever the flags say.
Old_RecordGauge(s, o, c, name, value, attrs, ok, observed) ==
    IF MeterFails(o.meter, ok) THEN LoggerLog(s, "Error")
    ELSE MeterObserve(s, o.meter, name, value, observed)

Old_LogInfo(s, o, c, message, attrs) == LoggerLog(s, "Info")

Old_LogWarning(s, o, c, message, attrs) == LoggerLog(s, "Warn")

Old_LogError(s, o, c, message, e, attrs) == LoggerLog(s, "Error")

Old_TrackRequest(s, o, g, c, responseCode, ok) ==
    Old_RecordMetric(s, o, g, c, "http.requests", 1,
                     <<"http.method", "http.url", "http.duration_ms",
                       "http.status_code">>, ok)

Old_TrackDependency(s, o, g, c, success, ok) ==
    Old_RecordMetric(s, o, g, c, "dependency.calls", 1,
                     <<"dependency.type", "dependency.target",
                       "dependency.duration_ms", "dependency.success">>, ok)

Old_TrackAvailability(s, o, g, c, name, success, ok) ==
    Old_RecordMetric(s, o, g, c, "availability.tests", 1,
                     <<"availability.test", "availability.duration_ms",
                       "availability.success">>, ok)

Old_SetUser(s, o, c, id) ==
    IF IsRecording(s, c) THEN SpanSetAttributes(s, c, {"user.id"}) ELSE s

Old_SetSession(s, o, c, id) ==
    IF IsRecording(s, c) THEN SpanSetAttributes(s, c, {"session.id"}) ELSE s

Old_PostTrace(s, o, message, severity, props) == LoggerLog(s, "Info")

-----------------------------------------------------------------------------
(* The package-level functions: the gates and the tracer and meter are the *)
(* package-level variables.                                                *)

Pkg_StartSpan(s, g, c, name) ==
    IF ~g.traceEnabled
    THEN [s EXCEPT !.retCtx = c, !.retSpan = 0]
    ELSE TracerStart(s, g.tracer, c, name, TRUE)

Pkg_EndSpan(s, h) == IF h # 0 THEN SpanEnd(s, h) ELSE s

Pkg_AddEvent(s, h, name, attrs) == IF h # 0 THEN SpanAddEvent(s, h) ELSE s

Pkg_RecordMetric(s, g, c, name, value, attrs, ok) ==
    IF ~g.metricsEnabled THEN s
    ELSE IF MeterFails(g.meter, ok) THEN LoggerLog(s, "Error")
    ELSE MeterRecord(s, g.meter, name, "counter", value)

-----------------------------------------------------------------------------
(* AppInsightsTelemetry: the flat backend behind the Telemetry interface.  *)

AI_PostMetrics(s, o, name, value) ==
    IF o.telemetryEnabled THEN GoTrack(s, Item("metric", name, value, "", NoProperties)) ELSE s

AI_PostEvent(s, o, name, props) ==
    IF o.telemetryEnabled THEN GoTrack(s, Item("event", name, 0, "", props)) ELSE s

AI_PostTrace(s, o, message, severity, props) ==
    IF o.traceEnabled /\ o.telemetryEnabled
    THEN GoTrack(s, Item("trace", message, 0, severity, props))
    ELSE s

\* A StartSpan that makes the operation found in ctx the parent of the new
\* one.
AI_StartSpan_Nested(s, o, c, name) ==
    LET h == Len(s.spans) + 1 IN
    [s EXCEPT !.spans = Append(@, [NewSpan("ai", name, c, TRUE) EXCEPT
                                      !.startTime = s.now]),
              !.retCtx = h, !.retSpan = h]

\* Always builds a span-like record, puts it in a new context and returns
\* it; neither flag is read and nothing is read from ctx.
AI_StartSpan(s, o, c, name) ==
    LET h == Len(s.spans) + 1 IN
    [s EXCEPT !.spans = Append(@, [NewSpan("ai", name, 0, TRUE) EXCEPT
                                      !.startTime = s.now]),
              !.retCtx = h, !.retSpan = h]

\* An EndSpan that formats the elapsed time.Duration itself instead of its
\* milliseconds.
AI_EndSpan_RawDuration(s, o, h) ==
    IF h # 0 /\ s.spans[h].kind = "ai"
    THEN LET duration == s.now - s.spans[h].startTime
             s1 == AI_PostEvent(s, o, s.spans[h].name,
                       [k \in {"duration_ms"} |-> FormatInt(duration)])
         IN [s1 EXCEPT !.spans[h].closes =
                        IF o.telemetryEnabled THEN @ + 1 ELSE @]
    ELSE s

\* span.(*appInsightsSpan) holds for the handles AI_StartSpan made; every
\* call posts one event carrying the elapsed time.
AI_EndSpan(s, o, h) ==
    IF h # 0 /\ s.spans[h].kind = "ai"
    THEN LET duration == s.now - s.spans[h].startTime
             s1 == AI_PostEvent(s, o, s.spans[h].name,
                       [k \in {"duration_ms"} |->
                           FormatInt(Milliseconds(duration))])
         IN
         [s1 EXCEPT !.spans[h].closes =
                        IF o.telemetryEnabled THEN @ + 1 ELSE @]
    ELSE s

\* The handle is not read.
AI_AddEvent(s, o, h, name, attrs) == AI_PostEvent(s, o, name, Properties(attrs))

RECURSIVE AI_PostAttrMetrics(_, _, _, _)
AI_PostAttrMetrics(s, o, name, attrs) ==
    IF attrs = <<>> THEN s
    ELSE AI_PostAttrMetrics(AI_PostMetrics(s, o, name \o "." \o Head(attrs), 0),
                            o, name, Tail(attrs))

\* One metric for the value, then one more per attribute, named
\* name + "." + key.
AI_RecordMetric(s, o, c, name, value, attrs) ==
    AI_PostAttrMetrics(AI_PostMetrics(s, o, name, value), o, name, attrs)

AI_IncrementCounter(s, o, c, name, increment, attrs) ==
    AI_RecordMetric(s, o, c, name, increment, attrs)

AI_RecordGauge(s, o, c, name, value, attrs) ==
    AI_RecordMetric(s, o, c, name, value, attrs)

AI_LogInfo(s, o, c, message, attrs) ==
    AI_PostTrace(s, o, message, "Information", Properties(attrs))

AI_LogWarning(s, o, c, message, attrs) ==
    AI_PostTrace(s, o, message, "Warning", Properties(attrs))

\* err.Error() is called whatever err is: a nil err panics.
AI_LogError(s, o, c, message, e, attrs) ==
    IF e = Nil THEN [s EXCEPT !.panic = TRUE]
    ELSE AI_PostTrace(s, o, message, "Error",
                      [k \in Range(attrs) \cup {"error"} |->
                          IF k = "error" THEN e ELSE Properties(attrs)[k]])

AI_TrackRequest(s, o, c, responseCode) ==
    IF o.telemetryEnabled
    THEN ClientTrack(s, Item("request", "request", 0, "", NoProperties))
    ELSE s

AI_TrackDependency(s, o, c, success) ==
    IF o.telemetryEnabled
    THEN ClientTrack(s, Item("dependency", "dependency", 0, "", NoProperties))
    ELSE s

AI_TrackAvailability(s, o, c, name, success) ==
    IF o.telemetryEnabled
    THEN ClientTrack(s, Item("availability", name, 0, "", NoProperties))
    ELSE s

\* client.Context().User().SetId(id): the id of every item of the client.
AI_SetUser(s, o, c, id) == [s EXCEPT !.tags.user = id]

AI_SetSession(s, o, c, id) == [s EXCEPT !.tags.session = id]

-----------------------------------------------------------------------------
(* TelemetryAppInsights (open_telemetry.go).                               *)

TAI_PostMetrics(s, o, name, value) ==
    IF o.telemetryEnabled THEN GoTrack(s, Item("metric", name, value, "", NoProperties)) ELSE s

TAI_PostEvent(s, o, name, props) ==
    IF o.telemetryEnabled THEN GoTrack(s, Item("event", name, 0, "", props)) ELSE s

TAI_PostTrace(s, o, message, severity, props) ==
    IF o.traceEnabled /\ o.telemetryEnabled
    THEN GoTrack(s, Item("trace", message, 0, severity, props))
    ELSE s

-----------------------------------------------------------------------------
(* Spec: the package is initialised, one facade is constructed, and the    *)
(* caller makes up to MaxCalls calls on it while the goroutines of the     *)
(* flat backend run.                                                       *)

Init ==
    /\ env = NoEnv
    /\ pc = "init"
    /\ obj = NoObj
    /\ err = NoErr
    /\ \E te, me \in BOOLEAN :
          /\ registry = initProvider(te, me, TRUE, TRUE).registry
          /\ pkg = PackageVars(te, me, registry)
    /\ last = NoCall
    /\ quiet

\* The environment at the time NewTelemetry is called.
EnvOf(tt, a, b) ==
    [NoEnv EXCEPT !.TELEMETRY_TYPE = tt,
                  !.OTEL_TRACE_ENABLED = a, !.OTEL_METRICS_ENABLED = b,
                  !.APPINSIGHTS_TRACE_ENABLED = a, !.APPINSIGHTS_ENABLED = b]

CallNewOpenTelemetry ==
    /\ pc = "init"
    /\ \E te, me, tOk, mOk \in BOOLEAN :
          Constructed("NewOpenTelemetry",
                      NewOpenTelemetry("svc", te, me, tOk, mOk, registry))
    /\ UNCHANGED <<env, pkg, opVars>>

CallNewTelemetryOld ==
    /\ pc = "init"
    /\ \E a, b \in {"", "true"}, tOk, mOk \in BOOLEAN :
          Constructed("newOpenTelemetry",
                      NewTelemetry(EnvOf(s_otel, a, b), tOk, mOk, registry))
    /\ UNCHANGED <<env, pkg, opVars>>

CallNewTelemetryAppInsights ==
    /\ pc = "init"
    /\ \E a, b \in {"", "true"} :
          Constructed("newAppInsightsTelemetry",
                      NewTelemetry(EnvOf(s_appinsights, a, b), TRUE, TRUE, registry))
    /\ UNCHANGED <<env, pkg, opVars>>

CallTelemetryAppInsights ==
    /\ pc = "init"
    /\ \E te, tel \in BOOLEAN :
          Constructed("NewTelemetryAppInsights",
                      [obj |-> NewTelemetryAppInsights("svc", te, tel),
                       err |-> NoErr, registry |-> registry])
    /\ UNCHANGED <<env, pkg, opVars>>

CallGetTelemetryAppInsights ==
    /\ pc = "init"
    /\ Constructed("GetTelemetryAppInsights",
                   [obj |-> GetTelemetryAppInsights, err |-> NoErr,
                    registry |-> registry])
    /\ UNCHANGED <<env, pkg, opVars>>

\* The package-level functions need no instance.
UsePackage ==
    /\ pc = "init"
    /\ Constructed("package",
                   [obj |-> [impl |-> PKG], err |-> NoErr, registry |-> registry])
    /\ UNCHANGED <<env, pkg, opVars>>

\* One call: the method's effect r on the state, and the call as the caller
\* sees it.
Apply(call, r) ==
    /\ pc = "ready"
    /\ ncalls < MaxCalls
    /\ spans' = r.spans
    /\ instruments' = r.instruments
    /\ records' = r.records
    /\ values' = r.values
    /\ pending' = r.pending
    /\ tracked' = r.tracked
    /\ logs' = r.logs
    /\ tags' = r.tags
    /\ pc' = IF r.panic THEN "panic" ELSE pc
    /\ ncalls' = ncalls + 1
    /\ last' = [call EXCEPT
                  !.retCtx = r.retCtx,
                  !.retSpan = r.retSpan,
                  !.sub = SubmittedOf(r.spans, r.records, r.pending, r.tracked)
                          - Submitted,
                  !.made = Cardinality(r.instruments) - Cardinality(instruments),
                  !.logged = [l \in Levels |-> r.logs[l] - logs[l]],
                  !.panic = r.panic]
    /\ UNCHANGED <<env, obj, err, pkg, registry, shutdowns, now, mock, wait>>

\* A detached goroutine reaches client.Track.  A panic unwinds the calling
\* goroutine only: the goroutines already started run on for as long as the
\* process does, also while the caller is blocked in Shutdown.
RunTask ==
    /\ pc \in {"ready", "panic", "waiting"}
    /\ \E item \in BagToSet(pending) :
          /\ pending' = pending (-) SetToBag({item})
          /\ tracked' = tracked (+) SetToBag({item})
    /\ UNCHANGED <<env, pc, obj, err, pkg, registry, shutdowns, spans,
                   instruments, records, values, now, mock, logs, tags, last,
                   ncalls, wait>>

Construct ==
    \/ CallNewOpenTelemetry
    \/ CallNewTelemetryOld
    \/ CallNewTelemetryAppInsights
    \/ CallTelemetryAppInsights
    \/ CallGetTelemetryAppInsights
    \/ UsePackage

OTCalls ==
    \* StartSpan
    \/ /\ obj.impl = OT
       /\ \E c \in HeldHandles, name \in SpanNames :
             Apply(Call("StartSpan", c, 0),
                   OT_StartSpan(St, obj, c, name))
    \* EndSpan
    \/ /\ obj.impl = OT
       /\ \E h \in HeldHandles :
             Apply(Call("EndSpan", 0, h),
                   OT_EndSpan(St, obj, h))
    \* AddEvent
    \/ /\ obj.impl = OT
       /\ \E h \in HeldHandles, name \in SpanNames, attrs \in AttrLists :
             Apply(Call("AddEvent", 0, h),
                   OT_AddEvent(St, obj, h, name, attrs))
    \* PostEvent
    \/ /\ obj.impl = OT
       /\ \E name \in SpanNames :
             Apply(Call("PostEvent", 0, 0),
                   OT_PostEvent(St, obj, name, NoProperties))
    \* RecordMetric
    \/ /\ obj.impl = OT
       /\ \E c \in HeldHandles, name \in MetricNames, value \in Values, attrs \in AttrLists, ok \in BOOLEAN :
             Apply(MetricCall("RecordMetric", c, name, value, attrs),
                   OT_RecordMetric(St, obj, c, name, value, attrs, ok))
    \* IncrementCounter
    \/ /\ obj.impl = OT
       /\ \E c \in HeldHandles, name \in MetricNames, value \in Values, attrs \in AttrLists, ok \in BOOLEAN :
             Apply(MetricCall("IncrementCounter", c, name, value, attrs),
                   OT_IncrementCounter(St, obj, c, name, value, attrs, ok))
    \* RecordGauge
    \/ /\ obj.impl = OT
       /\ \E c \in HeldHandles, name \in MetricNames, value \in Values, attrs \in AttrLists, ok \in BOOLEAN :
             Apply(MetricCall("RecordGauge", c, name, value, attrs),
                   OT_RecordGauge(St, obj, c, name, value, attrs, ok))
    \* LogInfo
    \/ /\ obj.impl = OT
       /\ \E c \in HeldHandles, attrs \in AttrLists :
             Apply(Call("LogInfo", c, 0),
                   OT_LogInfo(St, obj, c, "msg", attrs))
    \* LogWarning
    \/ /\ obj.impl = OT
       /\ \E c \in HeldHandles, attrs \in AttrLists :
             Apply(Call("LogWarning", c, 0),
                   OT_LogWarning(St, obj, c, "msg", attrs))
    \* LogError
    \/ /\ obj.impl = OT
       /\ \E c \in HeldHandles, e \in Errors, attrs \in AttrLists :
             Apply([Call("LogError", c, 0) EXCEPT !.arg = e],
                   OT_LogError(St, obj, c, "msg", e, attrs))
    \* RecordError
    \/ /\ obj.impl = OT
       /\ \E c \in HeldHandles, e \in Errors, attrs \in AttrLists :
             Apply([Call("RecordError", c, 0) EXCEPT !.arg = e],
                   OT_RecordError(St, obj, c, e, attrs))
    \* TrackRequest
    \/ /\ obj.impl = OT
       /\ \E c \in HeldHandles, statusCode \in StatusCodes :
             Apply([Call("TrackRequest", c, 0) EXCEPT !.arg = statusCode],
                   OT_TrackRequest(St, obj, c, statusCode))
    \* TrackDependency
    \/ /\ obj.impl = OT
       /\ \E c \in HeldHandles, success \in BOOLEAN :
             Apply(Call("TrackDependency", c, 0),
                   OT_TrackDependency(St, obj, c, success))
    \* TrackAvailability
    \/ /\ obj.impl = OT
       /\ \E c \in HeldHandles, name \in SpanNames, success \in BOOLEAN, ok \in BOOLEAN :
             Apply(Call("TrackAvailability", c, 0),
                   OT_TrackAvailability(St, obj, c, name, success, ok))
    \* SetUser
    \/ /\ obj.impl = OT
       /\ \E c \in HeldHandles, id \in Ids :
             Apply(Call("SetUser", c, 0),
                   OT_SetUser(St, obj, c, id))
    \* SetSession
    \/ /\ obj.impl = OT
       /\ \E c \in HeldHandles, id \in Ids :
             Apply(Call("SetSession", c, 0),
                   OT_SetSession(St, obj, c, id))
    \* PostTrace
    \/ /\ obj.impl = OT
       /\ Apply(Call("PostTrace", 0, 0),
                   OT_PostTrace(St, obj, "msg", "Information", NoProperties))

OldCalls ==
    \* StartSpan
    \/ /\ obj.impl = OTOld
       /\ \E c \in HeldHandles, name \in SpanNames :
             Apply(Call("StartSpan", c, 0),
                   Old_StartSpan(St, obj, pkg, c, name))
    \* EndSpan
    \/ /\ obj.impl = OTOld
       /\ \E h \in HeldHandles :
             Apply(Call("EndSpan", 0, h),
                   Old_EndSpan(St, obj, h))
    \* AddEvent
    \/ /\ obj.impl = OTOld
       /\ \E h \in HeldHandles, name \in SpanNames, attrs \in AttrLists :
             Apply(Call("AddEvent", 0, h),
                   Old_AddEvent(St, obj, h, name, attrs))
    \* PostEvent
    \/ /\ obj.impl = OTOld
       /\ \E name \in SpanNames :
             Apply(Call("PostEvent", 0, 0),
                   Old_PostEvent(St, obj, name, NoProperties))
    \* RecordMetric
    \/ /\ obj.impl = OTOld
       /\ \E c \in HeldHandles, name \in MetricNames, value \in Values, attrs \in AttrLists, ok \in BOOLEAN :
             Apply(MetricCall("RecordMetric", c, name, value, attrs),
                   Old_RecordMetric(St, obj, pkg, c, name, value, attrs, ok))
    \* IncrementCounter
    \/ /\ obj.impl = OTOld
       /\ \E c \in HeldHandles, name \in MetricNames, value \in Values, attrs \in AttrLists, ok \in BOOLEAN :
             Apply(MetricCall("IncrementCounter", c, name, value, attrs),
                   Old_IncrementCounter(St, obj, pkg, c, name, value, attrs, ok))
    \* RecordGauge
    \/ /\ obj.impl = OTOld
       /\ \E c \in HeldHandles, name \in MetricNames, value \in Values,
             attrs \in AttrLists, ok \in BOOLEAN, observed \in BOOLEAN :
             Apply(MetricCall("RecordGauge", c, name, value, attrs),
                   Old_RecordGauge(St, obj, c, name, value, attrs, ok, observed))
    \* LogInfo
    \/ /\ obj.impl = OTOld
       /\ \E c \in HeldHandles, attrs \in AttrLists :
             Apply(Call("LogInfo", c, 0),
                   Old_LogInfo(St, obj, c, "msg", attrs))
    \* LogWarning
    \/ /\ obj.impl = OTOld
       /\ \E c \in HeldHandles, attrs \in AttrLists :
             Apply(Call("LogWarning", c, 0),
                   Old_LogWarning(St, obj, c, "msg", attrs))
    \* LogError
    \/ /\ obj.impl = OTOld
       /\ \E c \in HeldHandles, e \in Errors, attrs \in AttrLists :
             Apply([Call("LogError", c, 0) EXCEPT !.arg = e],
                   Old_LogError(St, obj, c, "msg", e, attrs))
    \* TrackRequest
    \/ /\ obj.impl = OTOld
       /\ \E c \in HeldHandles, responseCode \in StatusCodes, ok \in BOOLEAN :
             Apply(Call("TrackRequest", c, 0),
                   Old_TrackRequest(St, obj, pkg, c, responseCode, ok))
    \* TrackDependency
    \/ /\ obj.impl = OTOld
       /\ \E c \in HeldHandles, success \in BOOLEAN, ok \in BOOLEAN :
             Apply(Call("TrackDependency", c, 0),
                   Old_TrackDependency(St, obj, pkg, c, success, ok))
    \* TrackAvailability
    \/ /\ obj.impl = OTOld
       /\ \E c \in HeldHandles, name \in SpanNames, success \in BOOLEAN, ok \in BOOLEAN :
             Apply(Call("TrackAvailability", c, 0),
                   Old_TrackAvailability(St, obj, pkg, c, name, success, ok))
    \* SetUser
    \/ /\ obj.impl = OTOld
       /\ \E c \in HeldHandles, id \in Ids :
             Apply(Call("SetUser", c, 0),
                   Old_SetUser(St, obj, c, id))
    \* SetSession
    \/ /\ obj.impl = OTOld
       /\ \E c \in HeldHandles, id \in Ids :
             Apply(Call("SetSession", c, 0),
                   Old_SetSession(St, obj, c, id))
    \* PostTrace
    \/ /\ obj.impl = OTOld
       /\ Apply(Call("PostTrace", 0, 0),
                   Old_PostTrace(St, obj, "msg", "Information", NoProperties))

PkgCalls ==
    \* StartSpan
    \/ /\ obj.impl = PKG
       /\ \E c \in HeldHandles, name \in SpanNames :
             Apply(Call("StartSpan", c, 0),
                   Pkg_StartSpan(St, pkg, c, name))
    \* EndSpan
    \/ /\ obj.impl = PKG
       /\ \E h \in HeldHandles :
             Apply(Call("EndSpan", 0, h),
                   Pkg_EndSpan(St, h))
    \* AddEvent
    \/ /\ obj.impl = PKG
       /\ \E h \in HeldHandles, name \in SpanNames, attrs \in AttrLists :
             Apply(Call("AddEvent", 0, h),
                   Pkg_AddEvent(St, h, name, attrs))
    \* RecordMetric
    \/ /\ obj.impl = PKG
       /\ \E c \in HeldHandles, name \in MetricNames, value \in Values, attrs \in AttrLists, ok \in BOOLEAN :
             Apply(MetricCall("RecordMetric", c, name, value, attrs),
                   Pkg_RecordMetric(St, pkg, c, name, value, attrs, ok))

AICalls ==
    \* StartSpan
    \/ /\ obj.impl = AI
       /\ \E c \in HeldHandles, name \in SpanNames :
             Apply(Call("StartSpan", c, 0),
                   AI_StartSpan(St, obj, c, name))
    \* EndSpan
    \/ /\ obj.impl = AI
       /\ \E h \in HeldHandles :
             Apply(Call("EndSpan", 0, h),
                   AI_EndSpan(St, obj, h))
    \* AddEvent
    \/ /\ obj.impl = AI
       /\ \E h \in HeldHandles, name \in SpanNames, attrs \in AttrLists :
             Apply(Call("AddEvent", 0, h),
                   AI_AddEvent(St, obj, h, name, attrs))
    \* RecordMetric
    \/ /\ obj.impl = AI
       /\ \E c \in HeldHandles, name \in MetricNames, value \in Values, attrs \in AttrLists :
             Apply(MetricCall("RecordMetric", c, name, value, attrs),
                   AI_RecordMetric(St, obj, c, name, value, attrs))
    \* IncrementCounter
    \/ /\ obj.impl = AI
       /\ \E c \in HeldHandles, name \in MetricNames, value \in Values, attrs \in AttrLists :
             Apply(MetricCall("IncrementCounter", c, name, value, attrs),
                   AI_IncrementCounter(St, obj, c, name, value, attrs))
    \* RecordGauge
    \/ /\ obj.impl = AI
       /\ \E c \in HeldHandles, name \in MetricNames, value \in Values, attrs \in AttrLists :
             Apply(MetricCall("RecordGauge", c, name, value, attrs),
                   AI_RecordGauge(St, obj, c, name, value, attrs))
    \* LogInfo
    \/ /\ obj.impl = AI
       /\ \E c \in HeldHandles, attrs \in AttrLists :
             Apply(Call("LogInfo", c, 0),
                   AI_LogInfo(St, obj, c, "msg", attrs))
    \* LogWarning
    \/ /\ obj.impl = AI
       /\ \E c \in HeldHandles, attrs \in AttrLists :
             Apply(Call("LogWarning", c, 0),
                   AI_LogWarning(St, obj, c, "msg", attrs))
    \* LogError
    \/ /\ obj.impl = AI
       /\ \E c \in HeldHandles, e \in Errors, attrs \in AttrLists :
             Apply([Call("LogError", c, 0) EXCEPT !.arg = e],
                   AI_LogError(St, obj, c, "msg", e, attrs))
    \* TrackRequest
    \/ /\ obj.impl = AI
       /\ \E c \in HeldHandles, responseCode \in StatusCodes :
             Apply(Call("TrackRequest", c, 0),
                   AI_TrackRequest(St, obj, c, responseCode))
    \* TrackDependency
    \/ /\ obj.impl = AI
       /\ \E c \in HeldHandles, success \in BOOLEAN :
             Apply(Call("TrackDependency", c, 0),
                   AI_TrackDependency(St, obj, c, success))
    \* TrackAvailability
    \/ /\ obj.impl = AI
       /\ \E c \in HeldHandles, name \in SpanNames, success \in BOOLEAN :
             Apply(Call("TrackAvailability", c, 0),
                   AI_TrackAvailability(St, obj, c, name, success))
    \* SetUser
    \/ /\ obj.impl = AI
       /\ \E c \in HeldHandles, id \in Ids :
             Apply(Call("SetUser", c, 0),
                   AI_SetUser(St, obj, c, id))
    \* SetSession
    \/ /\ obj.impl = AI
       /\ \E c \in HeldHandles, id \in Ids :
             Apply(Call("SetSession", c, 0),
                   AI_SetSession(St, obj, c, id))
    \* PostMetrics
    \/ /\ obj.impl = AI
       /\ \E name \in MetricNames, value \in Values :
             Apply(Call("PostMetrics", 0, 0),
                   AI_PostMetrics(St, obj, name, value))
    \* PostEvent
    \/ /\ obj.impl = AI
       /\ \E name \in SpanNames, attrs \in AttrLists :
             Apply(Call("PostEvent", 0, 0),
                   AI_PostEvent(St, obj, name, Properties(attrs)))
    \* PostTrace
    \/ /\ obj.impl = AI
       /\ \E attrs \in AttrLists :
             Apply(Call("PostTrace", 0, 0),
                   AI_PostTrace(St, obj, "msg", "Information", Properties(attrs)))

TAICalls ==
    \* PostMetrics
    \/ /\ obj.impl = TAI
       /\ \E name \in MetricNames, value \in Values :
             Apply(Call("PostMetrics", 0, 0),
                   TAI_PostMetrics(St, obj, name, value))
    \* PostEvent
    \/ /\ obj.impl = TAI
       /\ \E name \in SpanNames, attrs \in AttrLists :
             Apply(Call("PostEvent", 0, 0),
                   TAI_PostEvent(St, obj, name, Properties(attrs)))
    \* PostTrace
    \/ /\ obj.impl = TAI
       /\ \E attrs \in AttrLists :
             Apply(Call("PostTrace", 0, 0),
                   TAI_PostTrace(St, obj, "msg", "Information", Properties(attrs)))

Next == Construct \/ OTCalls \/ OldCalls \/ PkgCalls \/ AICalls \/ TAICalls \/ RunTask

Spec == Init /\ [][Next]_vars

\* The flat backends alone, with the scheduler running every goroutine that
\* was started.
NextFlat ==
    \/ CallNewTelemetryAppInsights
    \/ CallTelemetryAppInsights
    \/ CallGetTelemetryAppInsights
    \/ AICalls
    \/ TAICalls
    \/ RunTask

SpecFlat == Init /\ [][NextFlat]_vars /\ WF_vars(RunTask)

\* Time passes between the calls: the clock that time.Now() and
\* time.Since() read moves on by one tick.
ClockTick ==
    /\ pc = "ready"
    /\ now < MaxNow
    /\ now' = now + 1
    /\ UNCHANGED <<env, pc, obj, err, pkg, registry, shutdowns, spans,
                   instruments, records, values, mock, pending, tracked, logs,
                   tags, last, ncalls, wait>>

\* The flat backend behind the Telemetry interface with the clock running.
NextFlatTimed ==
    \/ CallNewTelemetryAppInsights
    \/ AICalls
    \/ RunTask
    \/ ClockTick

SpecFlatTimed == Init /\ [][NextFlatTimed]_vars

-----------------------------------------------------------------------------
(* Shutdown.  A provider's Shutdown fails or not as the environment        *)
(* decides (tFail, mFail); the result names the providers that were        *)
(* attempted, those that failed, the error returned and a panic.           *)

CloseCeiling == 10

ShutdownResult(attempted, failed, e, panic) ==
    [attempted |-> attempted, failed |-> failed, err |-> e, panic |-> panic]

OT_Shutdown(o, tFail, mFail) ==
    LET tTried == o.traceProvider # Nil
        mTried == o.meterProvider # Nil
        err1 == IF tTried /\ tFail THEN "trace" ELSE NoErr
        err2 == IF mTried /\ mFail THEN "trace: " \o err1 \o ", metric" ELSE err1
    IN ShutdownResult(
           (IF tTried THEN {o.traceProvider} ELSE {})
               \cup (IF mTried THEN {o.meterProvider} ELSE {}),
           (IF tTried /\ tFail THEN {o.traceProvider} ELSE {})
               \cup (IF mTried /\ mFail THEN {o.meterProvider} ELSE {}),
           err2, FALSE)

\* No nil test: Shutdown is called on the stored pointers, and a nil
\* *TracerProvider or *MeterProvider panics in it.  Failures are logged;
\* nothing is returned.
Old_Shutdown(o, tFail, mFail) ==
    IF o.traceProvider = Nil THEN ShutdownResult({}, {}, NoErr, TRUE)
    ELSE IF o.meterProvider = Nil
         THEN ShutdownResult({o.traceProvider},
                             IF tFail THEN {o.traceProvider} ELSE {}, NoErr, TRUE)
         ELSE ShutdownResult({o.traceProvider, o.meterProvider},
                             (IF tFail THEN {o.traceProvider} ELSE {})
                                 \cup (IF mFail THEN {o.meterProvider} ELSE {}),
                             NoErr, FALSE)

\* The package-level Shutdown takes the providers from the global registry.
Pkg_Shutdown(reg, tFail, mFail) ==
    ShutdownResult(
        {reg.tp, reg.mp} \ {Nil},
        (IF reg.tp # Nil /\ tFail THEN {reg.tp} ELSE {})
            \cup (IF reg.mp # Nil /\ mFail THEN {reg.mp} ELSE {}),
        NoErr, FALSE)

\* Calls into the logger that Shutdown makes for the failures it saw.
ShutdownLogs(impl, r) ==
    IF impl \in {OTOld, PKG} THEN Cardinality(r.failed) ELSE 0

\* The select a flat-backend shutdown blocks in: AppInsightsTelemetry waits
\* for the channel to close or for ctx.Done(); TelemetryAppInsights waits for
\* the channel to close or for time.After(10s).  deadline = 0 is a context
\* that is never done.
AI_Shutdown(o, deadline) ==
    [on |-> TRUE, elapsed |-> 0, deadline |-> deadline, timer |-> FALSE]

TAI_Close(o) ==
    [on |-> o.client # Nil, elapsed |-> 0, deadline |-> 0, timer |-> TRUE]

CtxDeadlines == {0, 5}

shutVars == <<env, obj, pkg, registry, spans, instruments, records, values,
              now, mock, pending, tracked, tags>>

\* A Shutdown of a streaming backend returns with result r.
ShutdownReturns(r) ==
    /\ pc = "ready"
    /\ ncalls < MaxCalls
    /\ shutdowns' = [p \in DOMAIN shutdowns |->
                        shutdowns[p] + IF p \in r.attempted THEN 1 ELSE 0]
    /\ err' = r.err
    /\ logs' = [logs EXCEPT !.Error = @ + ShutdownLogs(obj.impl, r)]
    /\ pc' = IF r.panic THEN "panic" ELSE "ready"
    /\ last' = [Call("Shutdown", 0, 0) EXCEPT
                   !.arg = [attempted |-> r.attempted, failed |-> r.failed],
                   !.logged.Error = ShutdownLogs(obj.impl, r),
                   !.panic = r.panic]
    /\ ncalls' = ncalls + 1
    /\ UNCHANGED <<shutVars, wait>>

\* A shutdown of a flat backend enters its select, or panics before it.
ShutdownWaits(w) ==
    /\ pc = "ready"
    /\ ncalls < MaxCalls
    /\ wait' = w
    /\ pc' = IF w.on THEN "waiting" ELSE "panic"
    /\ last' = [Call("Shutdown", 0, 0) EXCEPT !.panic = ~w.on]
    /\ ncalls' = ncalls + 1
    /\ UNCHANGED <<shutVars, err, shutdowns, logs>>

\* One second passes while the select blocks.  Time does not pass beyond a
\* timer or a deadline that is due.
Tick ==
    /\ pc = "waiting"
    /\ wait.elapsed < MaxElapsed
    /\ wait.timer => wait.elapsed < CloseCeiling
    /\ wait.deadline # 0 => wait.elapsed < wait.deadline
    /\ wait' = [wait EXCEPT !.elapsed = @ + 1]
    /\ UNCHANGED <<shutVars, pc, err, shutdowns, logs, last, ncalls>>

Returned(level) ==
    /\ pc' = "ready"
    /\ wait' = [wait EXCEPT !.on = FALSE]
    /\ logs' = IF level = Nil THEN logs ELSE [logs EXCEPT ![level] = @ + 1]
    /\ UNCHANGED <<shutVars, err, shutdowns, last, ncalls>>

\* The channel returned by client.Channel().Close(...) is closed.
ChannelClosed ==
    /\ pc = "waiting"
    /\ Returned(IF obj.impl = AI THEN "Info" ELSE Nil)

\* <-ctx.Done()
CtxDone ==
    /\ pc = "waiting"
    /\ wait.deadline # 0
    /\ wait.elapsed >= wait.deadline
    /\ Returned("Error")

\* <-time.After(10 * time.Second)
TimerFires ==
    /\ pc = "waiting"
    /\ wait.timer
    /\ wait.elapsed >= CloseCeiling
    /\ Returned("Error")

\* Shutdown of the flat backends.
FlatShutdownCalls ==
    \* AppInsightsTelemetry.Shutdown
    \/ /\ obj.impl = AI
       /\ \E d \in CtxDeadlines : ShutdownWaits(AI_Shutdown(obj, d))
    \* TelemetryAppInsights.Close
    \/ /\ obj.impl = TAI
       /\ ShutdownWaits(TAI_Close(obj))

\* Shutdown (Close on TelemetryAppInsights), per implementation.
ShutdownCalls ==
    \* OpenTelemetry.Shutdown of open_telemetry.go
    \/ /\ obj.impl = OT
       /\ \E tFail, mFail \in BOOLEAN :
             ShutdownReturns(OT_Shutdown(obj, tFail, mFail))
    \* OpenTelemetry.Shutdown of opentelemetry.go
    \/ /\ obj.impl = OTOld
       /\ \E tFail, mFail \in BOOLEAN :
             ShutdownReturns(Old_Shutdown(obj, tFail, mFail))
    \* the package-level Shutdown
    \/ /\ obj.impl = PKG
       /\ \E tFail, mFail \in BOOLEAN :
             ShutdownReturns(Pkg_Shutdown(registry, tFail, mFail))
    \* the flat backends
    \/ FlatShutdownCalls

NextShutdown ==
    \/ Construct
    \/ ShutdownCalls
    \/ Tick
    \/ ChannelClosed
    \/ CtxDone
    \/ TimerFires

SpecShutdown == Init /\ [][NextShutdown]_vars

\* The flat backends with their shutdown: calls, the goroutines they start,
\* and a Shutdown that blocks in its select.
NextFlatShutdown ==
    \/ NextFlat
    \/ FlatShutdownCalls
    \/ Tick
    \/ ChannelClosed
    \/ CtxDone
    \/ TimerFires

SpecFlatShutdown == Init /\ [][NextFlatShutdown]_vars

-----------------------------------------------------------------------------
(* MockTelemetry: every method locks the mutex, appends a record of the    *)
(* call to the list of that method, and unlocks on return.  The append     *)
(* m.XCalls = append(m.XCalls, call) reads the list and then stores the     *)
(* longer one.                                                             *)

mockVars == <<env, pc, obj, err, pkg, registry, shutdowns, spans, instruments,
              records, values, now, pending, tracked, logs, tags, last, ncalls,
              wait>>

\* The record a call leaves: the method it is a call of and its arguments
\* (no two calls are passed the same arguments).
MockCallRecord(method, g, k) == [method |-> method, args |-> <<g, k>>]

\* A sync.Mutex that lets everybody in.
MuFree_Always(mu) == TRUE

\* m.mu.Lock() returns once nobody holds the mutex.
MuFree(mu) == mu = 0

\* Calls begun so far, by every goroutine.
MockCallsBegun ==
    LET n(g) == Len(mock.callers[g].calls)
                  + IF mock.callers[g].at \in {"locked", "read"} THEN 1 ELSE 0
    IN n(1) + n(2)

\* A goroutine calls a method: m.mu.Lock().
MockLock(g) ==
    /\ mock.callers[g].at = "idle"
    /\ MockCallsBegun < MaxMockCalls
    /\ MuFree(mock.mu)
    /\ \E method \in MockMethods :
          mock' = [mock EXCEPT !.mu = g,
                               !.callers[g].at = "locked",
                               !.callers[g].method = method]
    /\ UNCHANGED mockVars

\* append(m.XCalls, ...) reads the list of the method.
MockRead(g) ==
    /\ mock.callers[g].at = "locked"
    /\ mock' = [mock EXCEPT
                   !.callers[g].at = "read",
                   !.callers[g].read = mock.lists[mock.callers[g].method]]
    /\ UNCHANGED mockVars

\* m.XCalls = ...: the list read, with the record of this call at its end,
\* is stored.
MockAppend(g) ==
    /\ mock.callers[g].at = "read"
    /\ LET c == mock.callers[g]
           rec == MockCallRecord(c.method, g, Len(c.calls) + 1)
       IN mock' = [mock EXCEPT
                      !.lists[c.method] = Append(c.read, rec),
                      !.callers[g].at = "appended",
                      !.callers[g].read = <<>>,
                      !.callers[g].calls = Append(@, rec)]
    /\ UNCHANGED mockVars

\* The deferred m.mu.Unlock(); the method returns.
MockUnlock(g) ==
    /\ mock.callers[g].at = "appended"
    /\ mock' = [mock EXCEPT !.mu = 0,
                            !.callers[g].at = "idle",
                            !.callers[g].method = ""]
    /\ UNCHANGED mockVars

InitMock ==
    /\ env = NoEnv
    /\ pc = "init"
    /\ obj = NoObj
    /\ err = NoErr
    /\ registry = NoRegistry
    /\ pkg = PackageVars(FALSE, FALSE, NoRegistry)
    /\ last = NoCall
    /\ quiet

NextMock ==
    \/ \E g \in Goroutines : MockLock(g)
    \/ \E g \in Goroutines : MockRead(g)
    \/ \E g \in Goroutines : MockAppend(g)
    \/ \E g \in Goroutines : MockUnlock(g)

SpecMock == InitMock /\ [][NextMock]_vars

-----------------------------------------------------------------------------
(* The flags a facade was configured with.                                 *)

IsConstructed == pc \in {"ready", "waiting", "panic"}

\* The methods of opentelemetry.go consult the package-level flags, not the
\* fields of the receiver: there a feature counts as disabled only when both
\* say so.
TraceEnabled ==
    CASE obj.impl = PKG -> pkg.traceEnabled
      [] obj.impl = OTOld -> obj.traceEnabled \/ pkg.traceEnabled
      [] OTHER -> obj.traceEnabled

MetricsEnabled ==
    CASE obj.impl = PKG -> pkg.metricsEnabled
      [] obj.impl = OTOld -> obj.metricsEnabled \/ pkg.metricsEnabled
      [] obj.impl \in Flat -> obj.telemetryEnabled
      [] OTHER -> obj.metricsEnabled

RecognizedNames ==
    {s_opentelemetry, s_otel, s_appinsights, s_applicationinsights}

TrackOps == {"TrackRequest", "TrackDependency", "TrackAvailability"}

One(level) == [l \in Levels |-> IF l = level THEN 1 ELSE 0]

-----------------------------------------------------------------------------
(* Claims *)

\* C1: NewTelemetry with a non-empty TELEMETRY_TYPE that is none of the
\* recognized names constructs the streaming backend and never returns the
\* "unknown telemetry type" error.
C1_UnrecognizedIsStreaming ==
    (pc # "init"
       /\ env.TELEMETRY_TYPE # s_empty
       /\ ToLower(env.TELEMETRY_TYPE) \notin RecognizedNames)
    => /\ err # "unknown telemetry type"
       /\ err = NoErr => obj.impl \in Streaming

\* C2: the selector is compared case-insensitively: a value whose lower-case
\* form is appinsights or applicationinsights constructs the flat backend, a
\* value whose lower-case form is opentelemetry or otel, or the empty value,
\* constructs the streaming backend.
C2_SelectorCaseInsensitive ==
    pc # "init" =>
       LET t == ToLower(env.TELEMETRY_TYPE) IN
       /\ t \in {s_appinsights, s_applicationinsights}
             => (err = NoErr /\ obj.impl \in Flat)
       /\ t \in {s_opentelemetry, s_otel, s_empty}
             => (err # "unknown telemetry type"
                 /\ (err = NoErr => obj.impl \in Streaming))

\* C3: with tracing disabled StartSpan returns the context it was given and
\* a nil handle, and EndSpan, AddEvent and SetUser submit nothing to the
\* transport.
C3_DisabledTraceIsNoOp ==
    (IsConstructed /\ ~TraceEnabled) =>
       /\ last.op = "StartSpan" => (last.retCtx = last.ctx /\ last.retSpan = 0)
       /\ last.op \in {"EndSpan", "AddEvent", "SetUser"} => last.sub = 0

\* C4: with metrics disabled RecordMetric, IncrementCounter and RecordGauge
\* create no instrument and submit nothing to the transport.
C4_DisabledMetricsIsNoOp ==
    (IsConstructed /\ ~MetricsEnabled) =>
       (last.op \in {"RecordMetric", "IncrementCounter", "RecordGauge"}
           => (last.sub = 0 /\ last.made = 0))

\* C5: EndSpan is idempotent: however often it is called on a handle, at
\* most one completed item is emitted for that handle, and EndSpan on a nil
\* handle emits nothing.
C5_EndSpanIdempotent ==
    /\ \A h \in DOMAIN spans : spans[h].closes <= 1
    /\ (last.op = "EndSpan" /\ last.span = 0) => last.sub = 0

TrackGate ==
    CASE obj.impl = OT ->
            IF last.op = "TrackAvailability" THEN obj.metricsEnabled
            ELSE obj.traceEnabled
      [] obj.impl = OTOld -> pkg.metricsEnabled
      [] obj.impl = AI -> obj.telemetryEnabled
      [] OTHER -> FALSE

\* The Track calls that record a counter: they produce their item when the
\* instrument is created on the meter of a registered provider.
TrackByMetric ==
    \/ obj.impl = OTOld
    \/ obj.impl = OT /\ last.op = "TrackAvailability"

C7_LogAlwaysDelivered ==
    /\ last.op = "LogInfo" => last.logged = One("Info")
    /\ last.op = "LogWarning" => last.logged = One("Warn")
    /\ last.op = "LogError" => last.logged = One("Error")

\* The providers a streaming facade is responsible for: those its
\* constructor (the package initialisation, for the package-level functions)
\* created.
OwnedProviders ==
    IF obj.impl = PKG THEN {registry.tp, registry.mp} \ {Nil}
    ELSE (IF obj.traceEnabled THEN {"tp"} ELSE {})
            \cup (IF obj.metricsEnabled THEN {"mp"} ELSE {})

\* C8: Shutdown attempts the shutdown of every provider the facade owns,
\* whether or not an earlier one failed, and reports a failure (a non-nil
\* error; an error log line from the variants that return nothing) exactly
\* when one of them failed.
C8_ShutdownAggregates ==
    (last.op = "Shutdown" /\ obj.impl \in Streaming) =>
       /\ last.arg.attempted = OwnedProviders
       /\ (err # NoErr \/ last.logged.Error > 0) <=> (last.arg.failed # {})

\* A facade for which no provider or client was ever created.
NoResources ==
    IF obj.impl = PKG THEN OwnedProviders = {}
    ELSE IF obj.impl \in Flat THEN obj.client = Nil
    ELSE ~obj.traceEnabled /\ ~obj.metricsEnabled

\* C9: a Shutdown that follows another Shutdown, or that is made on a facade
\* without providers or client, neither panics nor stays blocked.
C9_ShutdownSafe ==
    (last.op = "Shutdown" /\ (ncalls >= 2 \/ NoResources)) =>
       /\ pc # "panic"
       /\ wait.on => wait.elapsed <= CloseCeiling

\* C10: a shutdown of the flat backend is never still blocked once the
\* 10-second ceiling has passed, whatever the transport and the context do.
C10_FlatShutdownBounded ==
    (IsConstructed /\ obj.impl \in Flat /\ wait.on) => wait.elapsed <= CloseCeiling

\* The operations of the Telemetry interface that C11 names.
FacadeOps ==
    {"StartSpan", "EndSpan", "AddEvent", "RecordMetric", "IncrementCounter",
     "RecordGauge", "LogInfo", "LogWarning", "LogError", "TrackRequest",
     "TrackDependency", "TrackAvailability", "SetUser", "SetSession"}

\* C11: no facade operation other than construction panics, whatever the
\* backend, the flags and the arguments (a nil handle, a nil error, a
\* context without an operation).
C11_OperationsNeverPanic ==
    last.op \in FacadeOps => (~last.panic /\ pc # "panic")

\* Tracing is enabled by every flag the implementation consults.
TraceFullyEnabled ==
    CASE obj.impl = PKG -> pkg.traceEnabled
      [] obj.impl = OTOld -> obj.traceEnabled /\ pkg.traceEnabled
      [] OTHER -> obj.traceEnabled

\* C12: LogError with a non-nil error, tracing enabled and a recording
\* operation on the context sets that operation's status to Error and adds
\* the error to it as an event; in every other case LogError changes no
\* operation.
C12_LogErrorMarksOperation ==
    [][(last'.op = "LogError" /\ ncalls' = ncalls + 1) =>
          LET c == last'.ctx IN
          IF last'.arg # Nil /\ TraceFullyEnabled /\ IsRecording(St, c)
          THEN /\ spans'[c].status = "Error"
               /\ spans'[c].events = spans[c].events + 1
          ELSE spans' = spans]_vars

\* C13: SetUser and SetSession change nothing but the attributes of the
\* recording operation on the passed context, and that only with tracing
\* enabled: no operation is created, nothing is submitted, and the identity
\* shared by the facade's other operations is left alone.
C13_SetIdentityOnlyTagsOperation ==
    [][(last'.op \in {"SetUser", "SetSession"} /\ ncalls' = ncalls + 1) =>
          /\ tags' = tags
          /\ Len(spans') = Len(spans)
          /\ last'.sub = 0
          /\ \A h \in DOMAIN spans :
                spans'[h] # spans[h]
                   => (h = last'.ctx /\ TraceEnabled /\ IsRecording(St, h))]_vars

PostOps == {"PostMetrics", "PostEvent", "PostTrace"}

\* The flags that let a Post call of the flat backend through.
PostEnabled(op) ==
    IF op = "PostTrace" THEN obj.traceEnabled /\ obj.telemetryEnabled
    ELSE obj.telemetryEnabled

\* C14: on the flat backend an enabled PostMetrics, PostEvent or PostTrace
\* call starts exactly one goroutine for its item and returns before Track
\* is reached; a goroutine hands its item to Track once; and with the
\* goroutines scheduled fairly every dispatched item is eventually tracked.
C14_DetachedExactlyOnce ==
    /\ [][(last'.op \in PostOps /\ ncalls' = ncalls + 1) =>
             /\ tracked' = tracked
             /\ BagCardinality(pending') =
                   BagCardinality(pending) + IF PostEnabled(last'.op) THEN 1 ELSE 0
             /\ pending \sqsubseteq pending']_vars
    /\ [][ncalls' = ncalls => pending' (+) tracked' = pending (+) tracked]_vars
    /\ (BagCardinality(pending) > 0) ~> (BagCardinality(pending) = 0)

C14_Witness ==
    /\ obj.impl = AI
    /\ last.op = "PostEvent"
    /\ last.sub = 1
    /\ BagCardinality(pending) = 0
    /\ BagCardinality(tracked) = 1

\* C16: what a constructor was passed decides the gates for good: on an
\* instance built by NewOpenTelemetry or newOpenTelemetry, StartSpan is gated
\* off exactly when traceEnabled was false and RecordMetric exactly when
\* metricsEnabled was false, whatever the package-level variables hold.
C16_GatesFixedAtConstruction ==
    (pc = "ready" /\ obj.impl \in {OT, OTOld}) =>
       /\ last.op = "StartSpan" => (last.retSpan = 0 <=> ~obj.traceEnabled)
       /\ last.op = "RecordMetric" =>
             IF obj.metricsEnabled
             THEN \/ [name |-> "m", kind |-> "counter"] \in instruments
                  \/ last.logged.Error = 1
             ELSE last.made = 0 /\ last.sub = 0

\* C18: AddEvent with a nil handle is dropped: nothing is submitted and no
\* operation changes, whatever the name, the attributes and the flags.
C18_AddEventNilDropped ==
    [][(last'.op = "AddEvent" /\ last'.span = 0 /\ ncalls' = ncalls + 1) =>
          (last'.sub = 0 /\ spans' = spans)]_vars

\* C19: with SERVICE_NAME unset or empty the constructed facade carries the
\* service name "unknown-service", whichever backend was selected.
C19_DefaultServiceName ==
    (pc = "ready" /\ env.SERVICE_NAME = "") => obj.serviceName = "unknown-service"

ConstructorOps == {"initProvider", "NewTelemetryInterface", "NewTelemetry"}

\* C17: a streaming constructor fails, and hands out no instance, whenever
\* an exporter whose flag is on cannot be built; it tries to build no
\* exporter whose flag is off; and when every exporter whose flag is on can
\* be built it does not fail.
C17_ExporterFailureFailsConstruction ==
    (last.op \in ConstructorOps /\ last.arg.called) =>
       LET a == last.arg IN
       /\ ((a.te /\ ~a.tOk) \/ (a.me /\ ~a.mOk))
             => /\ a.err # NoErr
                /\ last.op # "initProvider"
                      => (err = a.err /\ obj = NoObj /\ pc = "failed")
       /\ a.built \subseteq (IF a.te THEN {"trace"} ELSE {})
                               \cup (IF a.me THEN {"metric"} ELSE {})
       /\ ((a.te => a.tOk) /\ (a.me => a.mOk))
             => /\ a.err = NoErr
                /\ last.op # "initProvider" => (err = NoErr /\ pc = "ready")

C17_Witness ==
    /\ last.op = "NewTelemetry"
    /\ last.arg.called
    /\ ~last.arg.te
    /\ last.arg.me /\ ~last.arg.mOk
    /\ last.arg.built = {"metric"}
    /\ pc = "failed"
    /\ obj = NoObj

\* The span a TrackRequest call has just made: the newest one.
TrackedSpan == spans[Len(spans)]

MetricOps == {"RecordMetric", "IncrementCounter", "RecordGauge"}

\* Metrics are enabled by every flag the implementation consults.
MetricsFullyEnabled ==
    CASE obj.impl = PKG -> pkg.metricsEnabled
      [] obj.impl = OTOld -> obj.metricsEnabled /\ pkg.metricsEnabled
      [] obj.impl \in Flat -> obj.telemetryEnabled
      [] OTHER -> obj.metricsEnabled

\* The kinds of gauge the implementations create.
GaugeKinds == {"gauge", "observablegauge"}

\* C21: on the streaming backend with metrics enabled a RecordMetric or
\* IncrementCounter call that gets its counter adds its value to what the
\* counter of that name holds, and after a RecordGauge call that gets its
\* gauge the gauge of that name holds the value of that call; on the flat
\* backend RecordGauge submits the value of the call itself, not a running
\* sum.
C21_CounterSumsGaugeLast ==
    [][(ncalls' = ncalls + 1 /\ last'.op \in MetricOps) =>
          LET n == last'.arg.name
              v == last'.arg.value
          IN /\ (obj.impl \in Streaming /\ MetricsFullyEnabled
                    /\ last'.logged.Error = 0)
                   => IF last'.op = "RecordGauge"
                      THEN \E kind \in GaugeKinds :
                              /\ [name |-> n, kind |-> kind] \in DOMAIN values'
                              /\ Held(values', n, kind) = v
                      ELSE Held(values', n, "counter")
                              = Held(values, n, "counter") + v
             /\ (obj.impl \in Flat /\ obj.telemetryEnabled
                    /\ last'.op = "RecordGauge")
                   => LET item == Item("metric", n, v, "", NoProperties) IN
                      CopiesIn(item, pending') = CopiesIn(item, pending) + 1]_vars

\* C22: on the flat backend with telemetry enabled the first EndSpan on a
\* handle that StartSpan returned submits exactly one item: an event named
\* after the operation whose only property, duration_ms, is the number of
\* whole milliseconds that passed since StartSpan, in decimal; EndSpan on a
\* handle that is not a handle of the flat backend submits nothing.
C22_EndSpanSubmitsTimedEvent ==
    [][(ncalls' = ncalls + 1 /\ last'.op = "EndSpan"
          /\ obj.impl = AI /\ obj.telemetryEnabled) =>
          LET h == last'.span IN
          IF h # 0 /\ spans[h].kind = "ai"
          THEN spans[h].closes = 0 =>
                  /\ last'.sub = 1
                  /\ tracked' = tracked
                  /\ LET elapsed == now - spans[h].startTime IN
                     \E ms \in 0..MaxNow :
                        /\ ms * TicksPerMs <= elapsed
                        /\ elapsed < (ms + 1) * TicksPerMs
                        /\ LET item == Item("event", spans[h].name, 0, "",
                                            [k \in {"duration_ms"} |-> ToString(ms)])
                           IN CopiesIn(item, pending') = CopiesIn(item, pending) + 1
          ELSE last'.sub = 0 /\ pending' = pending /\ tracked' = tracked]_vars

C22_Witness ==
    /\ obj.impl = AI /\ obj.telemetryEnabled
    /\ last.op = "EndSpan" /\ last.span # 0 /\ last.sub = 1
    /\ spans[last.span].closes = 1
    /\ now - spans[last.span].startTime = 2
    /\ BagIn(Item("event", "op", 0, "", [k \in {"duration_ms"} |-> "1"]), pending)

\* C23: on the flat backend no operation is nested in another: StartSpan,
\* also with the context an earlier StartSpan returned, makes an operation
\* without a parent and leaves every other operation as it was; the item an
\* EndSpan emits carries the operation's own name and duration_ms and
\* nothing else; and no method of the flat backend depends on the operation
\* in the context it is passed.
C23_FlatNeverNested ==
    /\ [][(ncalls' = ncalls + 1 /\ obj.impl = AI) =>
             /\ \A h \in DOMAIN spans' : spans'[h].parent = 0
             /\ last'.op = "StartSpan" =>
                   /\ Len(spans') = Len(spans) + 1
                   /\ \A h \in DOMAIN spans : spans'[h] = spans[h]
             /\ last'.op = "EndSpan" =>
                   \A item \in BagToSet(pending') :
                      CopiesIn(item, pending') > CopiesIn(item, pending) =>
                         /\ item.kind = "event"
                         /\ item.name = spans[last'.span].name
                         /\ DOMAIN item.props = {"duration_ms"}]_vars
    /\ [](obj.impl = AI =>
             \A c \in HeldHandles :
                /\ AI_StartSpan(St, obj, c, "op") = AI_StartSpan(St, obj, 0, "op")
                /\ AI_RecordMetric(St, obj, c, "m", 1, <<"k">>)
                      = AI_RecordMetric(St, obj, 0, "m", 1, <<"k">>)
                /\ AI_LogInfo(St, obj, c, "msg", <<"k">>)
                      = AI_LogInfo(St, obj, 0, "msg", <<"k">>)
                /\ AI_LogError(St, obj, c, "msg", "boom", <<>>)
                      = AI_LogError(St, obj, 0, "msg", "boom", <<>>)
                /\ AI_TrackRequest(St, obj, c, 200) = AI_TrackRequest(St, obj, 0, 200)
                /\ AI_SetUser(St, obj, c, "u1") = AI_SetUser(St, obj, 0, "u1"))

C23_Witness ==
    /\ obj.impl = AI
    /\ last.op = "StartSpan"
    /\ last.ctx = 1
    /\ last.retSpan = 2
    /\ Len(spans) = 2
    /\ spans[2].parent = 0

\* The records of goroutine g in a list, in the order of the list.
RecordsOf(list, g) == SelectSeq(list, LAMBDA rec : rec.args[1] = g)

\* The calls of method m among the calls a goroutine has made, in order.
CallsOf(calls, m) == SelectSeq(calls, LAMBDA rec : rec.method = m)

\* C24: whatever the interleaving of concurrent calls on one MockTelemetry,
\* the list of each method holds exactly the records of the calls of that
\* method made so far, each once and with the arguments of its call, those of
\* one goroutine in the order the goroutine made them, and no record of a
\* call of another method.
C24_MockLosesNoCall ==
    \A m \in MockMethods :
       /\ \A i \in DOMAIN mock.lists[m] : mock.lists[m][i].method = m
       /\ \A g \in Goroutines :
             RecordsOf(mock.lists[m], g) = CallsOf(mock.callers[g].calls, m)

C24_Witness ==
    /\ Len(mock.lists["LogInfo"]) = 3
    /\ mock.lists["LogInfo"][1].args = <<1, 1>>
    /\ mock.lists["LogInfo"][2].args = <<2, 1>>
    /\ mock.lists["LogInfo"][3].args = <<1, 2>>
    /\ \A g \in Goroutines : mock.callers[g].at = "idle"

\* C25: on the flat backend, when Shutdown (Close) asks the channel to
\* close, every submission that an earlier PostMetrics, PostEvent or
\* PostTrace call dispatched has reached client.Track: none is still on its
\* way.
C25_NoTrackAfterClose ==
    (obj.impl \in Flat /\ last.op = "Shutdown" /\ ~last.panic
        /\ pc = "waiting" /\ wait.elapsed = 0)
       => pending = EmptyBag


\* C26: on the flat backend with telemetry enabled, one RecordMetric,
\* IncrementCounter or RecordGauge call submits exactly one metric item,
\* whatever the number of attributes it was given: the item is the one named
\* after the metric, and no item named after an attribute is submitted.
C26_OneItemPerMetricCall ==
    [][(ncalls' = ncalls + 1 /\ last'.op \in MetricOps
            /\ obj.impl = AI /\ obj.telemetryEnabled)
        => LET n == last'.arg.name
               v == last'.arg.value
               item == Item("metric", n, v, "", NoProperties)
           IN /\ last'.sub = 1
              /\ CopiesIn(item, pending') = CopiesIn(item, pending) + 1
              /\ \A i \in BagToSet(pending') :
                    i.name # n => CopiesIn(i, pending') = CopiesIn(i, pending)]_vars


\* C27: when a streaming constructor returns an error, no trace or meter
\* provider that the attempt created is still registered globally, and none
\* is left without a shutdown.
C27_FailedConstructionLeavesNothing ==
    (pc = "failed" /\ last.arg.called)
       => \A p \in {"tp", "mp"} :
             \/ registry.tp # p /\ registry.mp # p
             \/ shutdowns[p] > 0


\* C28: an instance built by a streaming constructor with traceEnabled
\* (metricsEnabled) holds in its traceProvider (meterProvider) field the
\* provider the constructor created and registered, and its Shutdown calls
\* the Shutdown of that provider.
C28_ShutdownReachesCreatedProviders ==
    (IsConstructed /\ obj.impl \in {OT, OTOld}) =>
       /\ obj.traceEnabled =>
             /\ registry.tp = "tp"
             /\ obj.traceProvider = registry.tp
             /\ last.op = "Shutdown" => shutdowns[registry.tp] > 0
       /\ obj.metricsEnabled =>
             /\ registry.mp = "mp"
             /\ obj.meterProvider = registry.mp
             /\ last.op = "Shutdown" => shutdowns[registry.mp] > 0


\* C29: on the flat backend PostMetrics, PostEvent, AddEvent and an EndSpan
\* of a handle StartSpan returned submit exactly when telemetryEnabled is
\* true, whatever traceEnabled is; PostTrace, LogInfo, LogWarning and
\* LogError submit exactly when traceEnabled and telemetryEnabled are both
\* true; with telemetryEnabled false no operation submits anything.
C29_FlatGating ==
    [][(ncalls' = ncalls + 1 /\ obj.impl \in Flat)
        => LET op == last'.op
               submits == last'.sub > 0
           IN /\ op \in {"PostMetrics", "PostEvent", "AddEvent"}
                    => (submits <=> obj.telemetryEnabled)
              /\ (op = "EndSpan" /\ last'.span # 0)
                    => (submits <=> obj.telemetryEnabled)
              /\ op \in {"PostTrace", "LogInfo", "LogWarning", "LogError"}
                    => (submits <=> (obj.traceEnabled /\ obj.telemetryEnabled))
              /\ ~obj.telemetryEnabled => ~submits]_vars


\* C30: on the streaming backend with tracing enabled, a PostEvent made
\* while an operation is open adds the event to an open operation; with
\* tracing disabled PostEvent and PostTrace change no operation.
C30_PostEventAttachesToOpenOperation ==
    [][(ncalls' = ncalls + 1 /\ obj.impl \in Streaming
            /\ last'.op \in {"PostEvent", "PostTrace"})
        => /\ (last'.op = "PostEvent" /\ TraceFullyEnabled
                  /\ \E h \in DOMAIN spans : IsRecording(St, h))
                 => \E h \in DOMAIN spans :
                       /\ IsRecording(St, h)
                       /\ spans'[h].events = spans[h].events + 1
           /\ ~TraceFullyEnabled => spans' = spans]_vars

=============================================================================
